---- MODULE Spec2Model ----
(***************************************************************************)
(* update_peer.py: a script that reads src/hooks/use-peer-game.ts, applies *)
(* two literal str.replace rules to the text in memory, writes the text    *)
(* back over the same path and prints a confirmation line.                 *)
(*                                                                         *)
(* Text is a sequence of fragments.  The fragments are the pieces out of   *)
(* which the script's four string literals are built, so that every        *)
(* literal is a concatenation of fragments and str.replace on the text is  *)
(* the left-to-right scan on the sequence.                                 *)
(***************************************************************************)
EXTENDS Integers, Sequences, FiniteSets, TLC

VARIABLES
  file,     \* content of the target file on disk
  pc,       \* pc[p]: the statement invocation p executes next
  handle,   \* handle[p]: the file handle p holds ("none", "r", "w")
  content,  \* content[p]: p's in-memory variable `content`
  out,      \* out[p]: lines p has printed on standard output
  log,      \* log[p]: the steps p has taken in its current run, in order
  snap,     \* snap[p]: what p's f.read() returned (history)
  mid,      \* mid[p]: p's content after the first rule (history)
  start,    \* start[p]: the file content when p's current run began (history)
  run,      \* run[p]: "first" or "second" invocation in a row
  rule      \* the rule handed to str.replace in RuleSpec

vars == <<file, pc, handle, content, out, log, snap, mid, start, run, rule>>

----------------------------------------------------------------------------
(* Bounds *)

\* Number of pieces an initial file content is concatenated from.
MaxSegs == 3

\* Number of pieces of the initial file content when two invocations race.
ConcSegs == 1

\* Length of the fragment sequences str.replace is tried on in RuleSpec.
MaxRuleLen == 3

----------------------------------------------------------------------------
(* The fragments of the script's literals *)

FragInitPeer == "    const initPeer = "
FragJoinAsGuest == "    const joinAsGuest = "
FragAsync == "async "
FragArrow == "() => {"
FragNL == "\n"
FragImport == "      const { default: Peer } = await import('peerjs')"
FragPeerOptions == "      const peerOptions: ConstructorParameters<typeof Peer>[1] = {}"
\* any other text of the target file
FragOther == "x"

Frags ==
  {FragInitPeer, FragJoinAsGuest, FragAsync, FragArrow, FragNL, FragImport,
   FragPeerOptions, FragOther}

file_path == "src/hooks/use-peer-game.ts"

old_init_peer ==
  <<FragInitPeer, FragAsync, FragArrow, FragNL, FragPeerOptions>>

MutNewInitPeerImportFirst ==
  <<FragImport, FragNL, FragInitPeer, FragAsync, FragArrow, FragNL, FragPeerOptions>>

new_init_peer ==
  <<FragInitPeer, FragAsync, FragArrow, FragNL, FragImport, FragNL, FragPeerOptions>>

old_join_guest ==
  <<FragJoinAsGuest, FragArrow, FragNL, FragPeerOptions>>

MutNewJoinGuestImportFirst ==
  <<FragImport, FragNL, FragJoinAsGuest, FragArrow, FragNL, FragPeerOptions>>

new_join_guest ==
  <<FragJoinAsGuest, FragAsync, FragArrow, FragNL, FragImport, FragNL, FragPeerOptions>>

SuccessMessage == "File updated successfully"

----------------------------------------------------------------------------
(* str.replace and helpers on text *)

RECURSIVE MutReplaceFirst(_, _, _)
\* replaces the first occurrence only
MutReplaceFirst(s, old, new) ==
  IF Len(s) < Len(old) THEN s
  ELSE IF SubSeq(s, 1, Len(old)) = old
       THEN new \o SubSeq(s, Len(old) + 1, Len(s))
       ELSE <<Head(s)>> \o MutReplaceFirst(Tail(s), old, new)

RECURSIVE MutReplaceOrInsert(_, _, _)
\* a rule that does not match appends its replacement
MutReplaceOrInsert(s, old, new) ==
  IF \E i \in 1..(Len(s) - Len(old) + 1) : SubSeq(s, i, i + Len(old) - 1) = old
  THEN IF SubSeq(s, 1, Len(old)) = old
       THEN new \o SubSeq(s, Len(old) + 1, Len(s))
       ELSE <<Head(s)>> \o MutReplaceOrInsert(Tail(s), old, new)
  ELSE s \o new

RECURSIVE Replace(_, _, _)
\* s.replace(old, new) for a non-empty old: scan left to right, substitute each
\* occurrence found and resume the scan behind it.
Replace(s, old, new) ==
  IF Len(s) < Len(old) THEN s
  ELSE IF SubSeq(s, 1, Len(old)) = old
       THEN new \o Replace(SubSeq(s, Len(old) + 1, Len(s)), old, new)
       ELSE <<Head(s)>> \o Replace(Tail(s), old, new)

\* The positions at which pat occurs in s.
Occurrences(s, pat) ==
  {i \in 1..(Len(s) - Len(pat) + 1) : SubSeq(s, i, i + Len(pat) - 1) = pat}

Contains(s, pat) == Occurrences(s, pat) # {}

\* The whole script as a function of the content read.
Patch(c) ==
  Replace(Replace(c, old_init_peer, new_init_peer), old_join_guest, new_join_guest)

\* Number of lines of a text: one more than its line breaks.
NumLines(s) == 1 + Cardinality({i \in 1..Len(s) : s[i] = FragNL})

\* A write of data at offset 0 of a file holding cur: what lies behind the data
\* stays (only the open truncates).  Offsets are counted in fragments; a run
\* on its own always writes to the file it has just emptied.
Overlay(cur, data) == data \o SubSeq(cur, Len(data) + 1, Len(cur))

----------------------------------------------------------------------------
(* Inputs *)

Pieces ==
  {old_init_peer, old_join_guest, new_init_peer, new_join_guest,
   <<FragOther>>, <<FragNL>>, <<FragPeerOptions>>, <<FragJoinAsGuest>>,
   <<FragArrow>>, <<FragAsync>>}

RECURSIVE Concats(_)
Concats(n) ==
  IF n = 0 THEN {<<>>}
  ELSE LET prev == Concats(n - 1)
       IN  prev \cup {c \o p : c \in prev, p \in Pieces}

Contents == Concats(MaxSegs)

ConcContents == Concats(ConcSegs)

Procs == {1, 2}

NoRule == [old |-> <<>>, new |-> <<>>]

\* The script's two rules, in the order it applies them.
ScriptRules ==
  {[old |-> old_init_peer, new |-> new_init_peer],
   [old |-> old_join_guest, new |-> new_join_guest]}

\* Rules str.replace is tried on: the script's, and literal rules over the same
\* fragments (dropping `async `, adding `async `, deleting other text).
Rules ==
  ScriptRules \cup
  {[old |-> <<FragAsync, FragArrow>>, new |-> <<FragArrow>>],
   [old |-> <<FragArrow>>, new |-> <<FragAsync, FragArrow>>],
   [old |-> <<FragOther>>, new |-> <<>>]}

RECURSIVE FragSeqs(_)
FragSeqs(n) ==
  IF n = 0 THEN {<<>>}
  ELSE LET prev == FragSeqs(n - 1)
       IN  prev \cup {Append(c, f) : c \in prev, f \in Frags}

RuleContents == Contents \cup FragSeqs(MaxRuleLen)

----------------------------------------------------------------------------
(* State after construction *)

\* One invocation of the script (invocation 1; invocation 2 is never started)
\* on a file with any of the contents.
Init ==
  /\ file \in Contents
  /\ pc = [p \in Procs |-> IF p = 1 THEN "open_r" ELSE "idle"]
  /\ handle = [p \in Procs |-> "none"]
  /\ content = [p \in Procs |-> <<>>]
  /\ out = [p \in Procs |-> <<>>]
  /\ log = [p \in Procs |-> <<>>]
  /\ snap = [p \in Procs |-> <<>>]
  /\ mid = [p \in Procs |-> <<>>]
  /\ start = [p \in Procs |-> file]
  /\ run = [p \in Procs |-> "first"]
  /\ rule = NoRule

----------------------------------------------------------------------------
(* The statements of the script, for invocation p *)

\* An unhandled exception: the interpreter exits, the `with` block has released
\* the handle and the process memory is gone.
Raise(p, ev) ==
  /\ pc' = [pc EXCEPT ![p] = "fatal"]
  /\ handle' = [handle EXCEPT ![p] = "none"]
  /\ content' = [content EXCEPT ![p] = <<>>]
  /\ log' = [log EXCEPT ![p] = Append(@, ev)]

\* with open(file_path, 'r') as f:
OpenRead(p) ==
  /\ pc[p] = "open_r"
  /\ pc' = [pc EXCEPT ![p] = "read"]
  /\ handle' = [handle EXCEPT ![p] = "r"]
  /\ log' = [log EXCEPT ![p] = Append(@, "open_r")]
  /\ UNCHANGED <<file, content, out, snap, mid, start, run, rule>>

\* the error is swallowed and the run goes on with an empty content
MutOpenReadFailSwallowed(p) ==
  /\ pc[p] = "open_r"
  /\ pc' = [pc EXCEPT ![p] = "rule1"]
  /\ log' = [log EXCEPT ![p] = Append(@, "fail_open_r")]
  /\ UNCHANGED <<file, handle, content, out, snap, mid, start, run, rule>>

\* open(file_path, 'r') raises: the path cannot be opened for reading.
OpenReadFail(p) ==
  /\ pc[p] = "open_r"
  /\ Raise(p, "fail_open_r")
  /\ UNCHANGED <<file, out, snap, mid, start, run, rule>>

\* content = f.read()
Read(p) ==
  /\ pc[p] = "read"
  /\ handle[p] = "r"
  /\ content' = [content EXCEPT ![p] = file]
  /\ snap' = [snap EXCEPT ![p] = file]
  /\ pc' = [pc EXCEPT ![p] = "close_r"]
  /\ log' = [log EXCEPT ![p] = Append(@, "read")]
  /\ UNCHANGED <<file, handle, out, mid, start, run, rule>>

\* f.read() raises (an I/O or decoding error).
ReadFail(p) ==
  /\ pc[p] = "read"
  /\ handle[p] = "r"
  /\ Raise(p, "fail_read")
  /\ UNCHANGED <<file, out, snap, mid, start, run, rule>>

\* the read handle stays open
MutCloseReadLeak(p) ==
  /\ pc[p] = "close_r"
  /\ pc' = [pc EXCEPT ![p] = "rule1"]
  /\ log' = [log EXCEPT ![p] = Append(@, "close_r")]
  /\ UNCHANGED <<file, handle, content, out, snap, mid, start, run, rule>>

\* the end of the first `with` block closes the read handle.
CloseRead(p) ==
  /\ pc[p] = "close_r"
  /\ handle' = [handle EXCEPT ![p] = "none"]
  /\ pc' = [pc EXCEPT ![p] = "rule1"]
  /\ log' = [log EXCEPT ![p] = Append(@, "close_r")]
  /\ UNCHANGED <<file, content, out, snap, mid, start, run, rule>>

\* content = content.replace(old_init_peer, new_init_peer)
RuleInit(p) ==
  /\ pc[p] = "rule1"
  /\ content' = [content EXCEPT ![p] = Replace(@, old_init_peer, new_init_peer)]
  /\ mid' = [mid EXCEPT ![p] = Replace(content[p], old_init_peer, new_init_peer)]
  /\ pc' = [pc EXCEPT ![p] = "rule2"]
  /\ log' = [log EXCEPT ![p] = Append(@, "rule1")]
  /\ UNCHANGED <<file, handle, out, snap, start, run, rule>>

\* the second rule is applied to the content as read
MutRuleJoinOnOriginal(p) ==
  /\ pc[p] = "rule2"
  /\ content' = [content EXCEPT ![p] = Replace(snap[p], old_join_guest, new_join_guest)]
  /\ pc' = [pc EXCEPT ![p] = "open_w"]
  /\ log' = [log EXCEPT ![p] = Append(@, "rule2")]
  /\ UNCHANGED <<file, handle, out, snap, mid, start, run, rule>>

\* content = content.replace(old_join_guest, new_join_guest)
RuleJoin(p) ==
  /\ pc[p] = "rule2"
  /\ content' = [content EXCEPT ![p] = Replace(@, old_join_guest, new_join_guest)]
  /\ pc' = [pc EXCEPT ![p] = "open_w"]
  /\ log' = [log EXCEPT ![p] = Append(@, "rule2")]
  /\ UNCHANGED <<file, handle, out, snap, mid, start, run, rule>>

\* the file is opened for update without truncation
MutOpenWriteNoTruncate(p) ==
  /\ pc[p] = "open_w"
  /\ handle' = [handle EXCEPT ![p] = "w"]
  /\ pc' = [pc EXCEPT ![p] = "write"]
  /\ log' = [log EXCEPT ![p] = Append(@, "open_w")]
  /\ UNCHANGED <<file, content, out, snap, mid, start, run, rule>>

\* the file is compared with what was read before it is overwritten
MutOpenWriteRecheck(p) ==
  /\ pc[p] = "open_w"
  /\ IF file = snap[p]
     THEN /\ handle' = [handle EXCEPT ![p] = "w"]
          /\ file' = <<>>
          /\ pc' = [pc EXCEPT ![p] = "write"]
          /\ log' = [log EXCEPT ![p] = Append(@, "open_w")]
          /\ UNCHANGED content
     ELSE /\ Raise(p, "fail_open_w")
          /\ UNCHANGED file
  /\ UNCHANGED <<out, snap, mid, start, run, rule>>

\* with open(file_path, 'w') as f:   mode 'w' truncates the file.
OpenWrite(p) ==
  /\ pc[p] = "open_w"
  /\ handle' = [handle EXCEPT ![p] = "w"]
  /\ file' = <<>>
  /\ pc' = [pc EXCEPT ![p] = "write"]
  /\ log' = [log EXCEPT ![p] = Append(@, "open_w")]
  /\ UNCHANGED <<content, out, snap, mid, start, run, rule>>

\* open(file_path, 'w') raises: the path cannot be opened for writing.
OpenWriteFail(p) ==
  /\ pc[p] = "open_w"
  /\ Raise(p, "fail_open_w")
  /\ UNCHANGED <<file, out, snap, mid, start, run, rule>>

\* f.write(content): the handle writes from offset 0.
Write(p) ==
  /\ pc[p] = "write"
  /\ handle[p] = "w"
  /\ file' = Overlay(file, content[p])
  /\ pc' = [pc EXCEPT ![p] = "close_w"]
  /\ log' = [log EXCEPT ![p] = Append(@, "write")]
  /\ UNCHANGED <<handle, content, out, snap, mid, start, run, rule>>

\* f.write(content) raises after k fragments, fewer than all, reached the file.
WriteFail(p) ==
  /\ pc[p] = "write"
  /\ handle[p] = "w"
  /\ \E k \in 0..(Len(content[p]) - 1) :
       file' = Overlay(file, SubSeq(content[p], 1, k))
  /\ Raise(p, "fail_write")
  /\ UNCHANGED <<out, snap, mid, start, run, rule>>

\* the end of the second `with` block closes the write handle.
CloseWrite(p) ==
  /\ pc[p] = "close_w"
  /\ handle' = [handle EXCEPT ![p] = "none"]
  /\ pc' = [pc EXCEPT ![p] = "print"]
  /\ log' = [log EXCEPT ![p] = Append(@, "close_w")]
  /\ UNCHANGED <<file, content, out, snap, mid, start, run, rule>>

\* the line is printed only when a rule changed the content
MutPrintIfChanged(p) ==
  /\ pc[p] = "print"
  /\ out' = [out EXCEPT ![p] = IF content[p] # snap[p]
                                THEN Append(@, SuccessMessage) ELSE @]
  /\ pc' = [pc EXCEPT ![p] = "done"]
  /\ content' = [content EXCEPT ![p] = <<>>]
  /\ log' = [log EXCEPT ![p] = Append(@, "print")]
  /\ UNCHANGED <<file, handle, snap, mid, start, run, rule>>

\* print("File updated successfully"), then the script ends.
PrintOk(p) ==
  /\ pc[p] = "print"
  /\ out' = [out EXCEPT ![p] = Append(@, SuccessMessage)]
  /\ pc' = [pc EXCEPT ![p] = "done"]
  /\ content' = [content EXCEPT ![p] = <<>>]
  /\ log' = [log EXCEPT ![p] = Append(@, "print")]
  /\ UNCHANGED <<file, handle, snap, mid, start, run, rule>>

\* The script is run again after a run that ended normally.
Rerun(p) ==
  /\ pc[p] = "done"
  /\ run[p] = "first"
  /\ run' = [run EXCEPT ![p] = "second"]
  /\ pc' = [pc EXCEPT ![p] = "open_r"]
  /\ out' = [out EXCEPT ![p] = <<>>]
  /\ log' = [log EXCEPT ![p] = <<>>]
  /\ start' = [start EXCEPT ![p] = file]
  /\ UNCHANGED <<file, handle, content, snap, mid, rule>>

Next ==
  \E p \in Procs :
    \/ OpenRead(p)
    \/ OpenReadFail(p)
    \/ Read(p)
    \/ ReadFail(p)
    \/ CloseRead(p)
    \/ RuleInit(p)
    \/ RuleJoin(p)
    \/ OpenWrite(p)
    \/ OpenWriteFail(p)
    \/ Write(p)
    \/ WriteFail(p)
    \/ CloseWrite(p)
    \/ PrintOk(p)
    \/ Rerun(p)

Spec == Init /\ [][Next]_vars

----------------------------------------------------------------------------
(* Two invocations of the script racing on the same file, every I/O call   *)
(* succeeding.                                                             *)

ConcInit ==
  /\ file \in ConcContents
  /\ pc = [p \in Procs |-> "open_r"]
  /\ handle = [p \in Procs |-> "none"]
  /\ content = [p \in Procs |-> <<>>]
  /\ out = [p \in Procs |-> <<>>]
  /\ log = [p \in Procs |-> <<>>]
  /\ snap = [p \in Procs |-> <<>>]
  /\ mid = [p \in Procs |-> <<>>]
  /\ start = [p \in Procs |-> file]
  /\ run = [p \in Procs |-> "first"]
  /\ rule = NoRule

ConcNext ==
  \E p \in Procs :
    \/ OpenRead(p)
    \/ Read(p)
    \/ CloseRead(p)
    \/ RuleInit(p)
    \/ RuleJoin(p)
    \/ OpenWrite(p)
    \/ Write(p)
    \/ CloseWrite(p)
    \/ PrintOk(p)

ConcSpec == ConcInit /\ [][ConcNext]_vars

----------------------------------------------------------------------------
(* str.replace alone, on any content and any of the rules *)

RuleSpecInit ==
  /\ file = <<>>
  /\ pc = [p \in Procs |-> IF p = 1 THEN "apply" ELSE "idle"]
  /\ handle = [p \in Procs |-> "none"]
  /\ content \in {[p \in Procs |-> IF p = 1 THEN c ELSE <<>>] : c \in RuleContents}
  /\ out = [p \in Procs |-> <<>>]
  /\ log = [p \in Procs |-> <<>>]
  /\ snap = [p \in Procs |-> <<>>]
  /\ mid = [p \in Procs |-> <<>>]
  /\ start = [p \in Procs |-> <<>>]
  /\ run = [p \in Procs |-> "first"]
  /\ rule \in Rules

\* content = content.replace(rule.old, rule.new)
ApplyRule(p) ==
  /\ pc[p] = "apply"
  /\ snap' = [snap EXCEPT ![p] = content[p]]
  /\ content' = [content EXCEPT ![p] = Replace(@, rule.old, rule.new)]
  /\ pc' = [pc EXCEPT ![p] = "applied"]
  /\ UNCHANGED <<file, handle, out, log, mid, start, run, rule>>

RuleSpecNext == \E p \in Procs : ApplyRule(p)

RuleSpec == RuleSpecInit /\ [][RuleSpecNext]_vars

----------------------------------------------------------------------------
(* Properties *)

InLog(p, ev) == \E i \in 1..Len(log[p]) : log[p][i] = ev

Terminated(p) == pc[p] \in {"done", "fatal"}

\* C1: the content a successful run writes back is the second rule applied to
\* the result of the first rule applied to the content read.
C1_SequentialComposition ==
  \A p \in Procs :
    InLog(p, "write") =>
      file = Replace(Replace(snap[p], old_init_peer, new_init_peer),
                     old_join_guest, new_join_guest)

C1_Witness ==
  /\ pc[1] = "done"
  /\ Contains(snap[1], old_init_peer)
  /\ Contains(snap[1], old_join_guest)
  /\ Contains(file, new_init_peer)
  /\ Contains(file, new_join_guest)

C3_NoOpRule ==
  \A p \in Procs :
    /\ (InLog(p, "rule1") /\ ~Contains(snap[p], old_init_peer)) => mid[p] = snap[p]
    /\ (pc[p] \in {"open_w", "write", "close_w", "print"}
          /\ ~Contains(mid[p], old_join_guest)) => content[p] = mid[p]
    /\ (InLog(p, "rule1") /\ ~InLog(p, "rule2")) => pc[p] = "rule2"
    /\ (InLog(p, "write") /\ ~Contains(snap[p], old_init_peer)
          /\ ~Contains(snap[p], old_join_guest)) => file = snap[p]

C3_Witness ==
  /\ pc[1] = "done"
  /\ snap[1] # <<>>
  /\ ~Contains(snap[1], old_init_peer)
  /\ ~Contains(snap[1], old_join_guest)
  /\ file = snap[1]

\* C4 as stated: a run that reached the write step (both rules applied) and
\* ended has printed the confirmation line.
C4_ReachedWriteImpliesReport ==
  \A p \in Procs :
    (Terminated(p) /\ InLog(p, "rule2")) => out[p] = <<SuccessMessage>>

\* C4 amended: a run that completed the write step and ended has printed the
\* confirmation line exactly once, the same line however many rules matched;
\* nothing is printed before the write and the handle's release.
C4_CompletedWriteImpliesReport ==
  \A p \in Procs :
    /\ (Terminated(p) /\ InLog(p, "write")) => out[p] = <<SuccessMessage>>
    /\ out[p] \in {<<>>, <<SuccessMessage>>}
    /\ out[p] # <<>> => (InLog(p, "write") /\ InLog(p, "close_w"))

C4_Witness ==
  /\ pc[1] = "done"
  /\ out[1] = <<SuccessMessage>>
  /\ snap[1] # <<>>
  /\ file = snap[1]

\* C5: a failed open for reading ends the run in the fatal state with no rule
\* applied, the file never opened for writing and unchanged, and nothing
\* printed; a failed open for writing ends the run in the fatal state with
\* nothing printed.
C5_FileAccessError ==
  \A p \in Procs :
    /\ InLog(p, "fail_open_r") =>
         /\ pc[p] = "fatal"
         /\ ~InLog(p, "rule1") /\ ~InLog(p, "rule2")
         /\ ~InLog(p, "open_w")
         /\ file = start[p]
         /\ out[p] = <<>>
    /\ InLog(p, "fail_open_w") =>
         /\ pc[p] = "fatal"
         /\ ~InLog(p, "write")
         /\ out[p] = <<>>

C5_Witness ==
  /\ pc[1] = "fatal"
  /\ InLog(1, "fail_open_r")
  /\ Contains(file, old_init_peer)

\* C6: when the initPeer block occurs exactly once in the file and the
\* joinAsGuest block does not occur, the file written is the file read with the
\* import line inserted between the block's two lines, and has one more line.
C6_ConcreteScenario ==
  \A p \in Procs :
    ( /\ InLog(p, "write")
      /\ Cardinality(Occurrences(snap[p], old_init_peer)) = 1
      /\ ~Contains(snap[p], old_join_guest) ) =>
        LET i == CHOOSE i \in Occurrences(snap[p], old_init_peer) : TRUE
        IN  /\ file = SubSeq(snap[p], 1, i + 3) \o <<FragImport, FragNL>>
                        \o SubSeq(snap[p], i + 4, Len(snap[p]))
            /\ NumLines(file) = NumLines(snap[p]) + 1

C6_Witness ==
  /\ pc[1] = "done"
  /\ Cardinality(Occurrences(snap[1], old_init_peer)) = 1
  /\ ~Contains(snap[1], old_join_guest)
  /\ Len(snap[1]) > Len(old_init_peer)
  /\ NumLines(file) = NumLines(snap[1]) + 1

Canon ==
  <<"open_r", "read", "close_r", "rule1", "rule2", "open_w", "write", "close_w", "print">>

FailEvents == {"fail_open_r", "fail_read", "fail_open_w", "fail_write"}

\* C7: the steps of a run are a prefix of open-read, read, close, rule 1,
\* rule 2, open-write, write, close, print (possibly ended by one failure);
\* no handle is held while the rules are applied, and the file on disk is the
\* file the run started with until the open for writing.
C7_IoOrdering ==
  \A p \in Procs :
    /\ \E k \in 0..Len(Canon) :
         \/ log[p] = SubSeq(Canon, 1, k)
         \/ \E e \in FailEvents : log[p] = Append(SubSeq(Canon, 1, k), e)
    /\ pc[p] \in {"rule1", "rule2"} => handle[p] = "none"
    /\ handle[p] = "w" => (InLog(p, "rule1") /\ InLog(p, "rule2"))
    /\ (pc[p] # "idle" /\ ~InLog(p, "open_w")) => file = start[p]

C7_Witness ==
  /\ pc[1] = "write"
  /\ handle[1] = "w"
  /\ file = <<>>
  /\ start[1] # <<>>
  /\ content[1] # start[1]

\* C8: the open for writing leaves the file empty, and a run whose write fails
\* ends with a file that is a proper part of the transformed content, neither
\* the content read nor the transformed content, and keeps no copy of the
\* content read.
C8_NonTransactional ==
  \A p \in Procs :
    /\ pc[p] = "write" => file = <<>>
    /\ InLog(p, "fail_write") =>
         /\ pc[p] = "fatal"
         /\ file # snap[p]
         /\ file # Patch(snap[p])
         /\ Len(file) < Len(Patch(snap[p]))
         /\ file = SubSeq(Patch(snap[p]), 1, Len(file))
         /\ content[p] # snap[p]

C8_Witness ==
  /\ pc[1] = "fatal"
  /\ InLog(1, "fail_write")
  /\ file # <<>>
  /\ Contains(snap[1], old_join_guest)

\* C9: with two invocations racing, no run ever ends in an error and every run
\* that ends has printed the confirmation line, whatever the other run did to
\* the file between its read and its write.
C9_RaceUndetected ==
  \A p \in Procs :
    /\ pc[p] # "fatal"
    /\ pc[p] = "done" => out[p] = <<SuccessMessage>>

\* A run read the file while the other had truncated it; the other run's
\* update was then overwritten and the file ends empty.
C9_Witness ==
  /\ \A p \in Procs : pc[p] = "done" /\ out[p] = <<SuccessMessage>>
  /\ start[1] # <<>>
  /\ \E p \in Procs : snap[p] = start[p]
  /\ \E p \in Procs : snap[p] = <<>>
  /\ file = <<>>

\* C10: in a second run in a row neither search block occurs in the content
\* read, and the file it writes is the file the first run left.
C10_Idempotence ==
  \A p \in Procs :
    run[p] = "second" =>
      /\ InLog(p, "read") =>
           /\ ~Contains(snap[p], old_init_peer)
           /\ ~Contains(snap[p], old_join_guest)
      /\ InLog(p, "write") => file = start[p]

C10_Witness ==
  /\ run[1] = "second"
  /\ pc[1] = "done"
  /\ Contains(file, new_init_peer)
  /\ Contains(file, new_join_guest)
  /\ file = start[1]

====
